---- MODULE Spec2Model ----
(***************************************************************************)
(* Authorization and token-lifecycle engine of lastuser:                   *)
(* AuthCode / AuthToken records of lastuser_core/models/client.py, the     *)
(* scope strings they store, and the code-exchange flow that drives them;   *)
(* the permission-assignment tables and their merge on account migration;  *)
(* the client registry, organizations and their owners teams, and the      *)
(* permission resolution of Client and Organization; resources, the        *)
(* deletion and the editing of clients; usernames and organization names.  *)
(***************************************************************************)
EXTENDS Integers, Sequences, FiniteSets, TLC

VARIABLES authcodes, authtokens, nextid, nonce, pc, req, result, requested, redeemed, issued, last,
          userperms, teamperms, permnext, lastperm,
          organizations, teams, clients, teamaccess, permissions, call,
          resources, resourceactions, usernames, orgnames

vars == <<authcodes, authtokens, nextid, nonce, pc, req, result, requested, redeemed, issued, last,
          userperms, teamperms, permnext, lastperm,
          organizations, teams, clients, teamaccess, permissions, call,
          resources, resourceactions, usernames, orgnames>>
flowvars == <<authcodes, pc, req, result, requested, redeemed, issued>>
tokenvars == <<authtokens, nextid, nonce, last>>
\* the permission-assignment tables and the record of the last call on them
permvars == <<userperms, teamperms, permnext, lastperm>>
\* what no operation on clients' owners and permission assignments writes:
\* Permission, Resource, ResourceAction, User.username, Organization.name
namevars == <<usernames, orgnames>>
catalogvars == <<permissions, resources, resourceactions, namevars>>
\* what the operations of AuthCode and AuthToken leave alone
ledgervars == <<userperms, teamperms, permnext, lastperm,
                organizations, teams, clients, teamaccess, catalogvars, call>>
\* organizations and their teams
identityvars == <<organizations, teams>>

(***************************************************************************)
(* Bounds                                                                  *)
(***************************************************************************)
MaxCodes == 2
MaxNonce == 7
MaxRows == 2
\* longest stored scope string given to the scope properties
MaxLen == 4

None == "None"
\* NULL in the columns that hold random ids (token, refresh_token, secret)
Null == 0
Users == {"u1", "u2"}
\* the user who grants codes in the exchange flow
CodeUsers == {"u1"}
Clients == {"c1", "c2"}
Redirects == {"r1", "r2"}
\* codes are issued against r1; an exchange presents r1 or r2
IssuedRedirects == {"r1"}
Workers == {1, 2}

(***************************************************************************)
(* Strings are sequences of characters; a scope token is a string without  *)
(* a space.                                                                *)
(***************************************************************************)
Space == " "
CharOrd == [ch \in {" ", "a", "b"} |-> CASE ch = " " -> 0 [] ch = "a" -> 1 [] ch = "b" -> 2]
Tokens == {<<"a">>, <<"b">>}

\* Python's unicode comparison s < t (lexicographic by code point)
RECURSIVE StrLess(_, _)
StrLess(s, t) ==
    IF t = <<>> THEN FALSE
    ELSE IF s = <<>> THEN TRUE
    ELSE IF s[1] # t[1] THEN CharOrd[s[1]] < CharOrd[t[1]]
    ELSE StrLess(Tail(s), Tail(t))

\* Python's s.split(u' '): one separator is one space, no item is dropped
RECURSIVE Split(_)
Split(s) ==
    IF \E i \in 1..Len(s) : s[i] = Space
    THEN LET i == CHOOSE j \in 1..Len(s) : s[j] = Space /\ \A k \in 1..(j - 1) : s[k] # Space
         IN  <<SubSeq(s, 1, i - 1)>> \o Split(SubSeq(s, i + 1, Len(s)))
    ELSE <<s>>

\* Python's u' '.join(items)
RECURSIVE Join(_)
Join(items) ==
    IF items = <<>> THEN <<>>
    ELSE IF Len(items) = 1 THEN items[1]
    ELSE items[1] \o <<Space>> \o Join(Tail(items))

\* Python's set(items)
ToSet(items) == {items[i] : i \in 1..Len(items)}

\* Python's sorted(value) for a value without repeated items
RECURSIVE Sorted(_)
Sorted(S) ==
    IF S = {} THEN <<>>
    ELSE LET m == CHOOSE x \in S : \A y \in S : x = y \/ StrLess(x, y)
         IN  <<m>> \o Sorted(S \ {m})

(***************************************************************************)
(* AuthCode                                                                *)
(***************************************************************************)
\* AuthCode.scope setter: the items joined in the order given
AuthCodeScopeSet(value) == Join(value)

\* AuthCode.scope getter
AuthCodeScope(code) == Split(code.scope)

\* AuthCode(user=, client=, scope=, redirect_uri=); used defaults to False
NewAuthCode(user, client, scope, redirect_uri) ==
    [user |-> user, client |-> client, scope |-> AuthCodeScopeSet(scope),
     redirect_uri |-> redirect_uri, used |-> FALSE]

(***************************************************************************)
(* AuthToken                                                               *)
(***************************************************************************)
\* a scope setter that joins the items in descending order
AuthTokenScopeSetDescending(value) ==
    LET s == Sorted(value) IN Join([i \in 1..Len(s) |-> s[Len(s) + 1 - i]])

\* AuthToken.scope setter: the items sorted, then joined
AuthTokenScopeSet(value) == Join(Sorted(value))

\* AuthToken.scope getter
AuthTokenScope(token) == Split(token.scope)

\* a constructor that draws a refresh_token for client-only tokens too
NewAuthTokenAlwaysRefreshable(id, user, client, scope, n) ==
    [id |-> id, user |-> user, client |-> client,
     scope |-> AuthTokenScopeSet(ToSet(scope)),
     token |-> n + 1, refresh_token |-> n + 2, secret |-> n + 2,
     algorithm |-> None, validity |-> 0]

\* AuthToken.__init__: token, then refresh_token for a user's token, then secret
NewAuthToken(id, user, client, scope, n) ==
    [id |-> id, user |-> user, client |-> client,
     scope |-> AuthTokenScopeSet(ToSet(scope)),
     token |-> n + 1,
     refresh_token |-> IF user # None THEN n + 2 ELSE Null,
     secret |-> IF user # None THEN n + 3 ELSE n + 2,
     algorithm |-> None, validity |-> 0]

\* number of newid()/newsecret() calls of AuthToken.__init__
NewAuthTokenDraws(user) == IF user # None THEN 3 ELSE 2

\* refresh that does not look at refresh_token
RefreshDoesAlways(token) == TRUE

\* AuthToken.refresh
RefreshDoes(token) == token.refresh_token # Null

\* refresh that also replaces the refresh token
RefreshedAll(token, n) ==
    IF RefreshDoes(token)
    THEN [token EXCEPT !.token = n + 1, !.secret = n + 2, !.refresh_token = n + 1]
    ELSE token

Refreshed(token, n) ==
    IF RefreshDoes(token)
    THEN [token EXCEPT !.token = n + 1, !.secret = n + 2]
    ELSE token

\* isinstance(additional, basestring): a bare string becomes a one-item list
Normalise(additional) ==
    IF additional.kind = "str" THEN <<additional.val>> ELSE additional.val

\* an add_scope that stores the added items in place of the union
AddedScopeReplaces(token, additional) ==
    [token EXCEPT !.scope = AuthTokenScopeSet(ToSet(Normalise(additional)))]

\* AuthToken.add_scope
AddedScope(token, additional) ==
    [token EXCEPT !.scope =
        AuthTokenScopeSet(ToSet(AuthTokenScope(token)) \cup ToSet(Normalise(additional)))]

\* the rows of the authtoken table with the given user, in id order
RECURSIVE IdsInOrder(_)
IdsInOrder(rows) ==
    IF rows = {} THEN <<>>
    ELSE LET r == CHOOSE x \in rows : \A y \in rows : x.id <= y.id
         IN  <<r.id>> \o IdsInOrder(rows \ {r})

Row(tbl, id) == CHOOSE r \in tbl : r.id = id

\* the inner loop of AuthToken.migrate_user over newtokens[token.client_id]:
\* the id of the first row that now belongs to newuser, Null when there is none
RECURSIVE FirstOfNewuser(_, _, _)
FirstOfNewuser(ids, tbl, newuser) ==
    IF ids = <<>> THEN Null
    ELSE IF tbl[Head(ids)].user = newuser THEN Head(ids)
    ELSE FirstOfNewuser(Tail(ids), tbl, newuser)

\* variants of the loop body with one statement wrong:
\*   "reassign"  every token is reassigned, none merged
\*   "overwrite" newtoken.scope = set(token.scope)
\*   "deletenew" db.session.delete(newtoken)
RECURSIVE MigrateLoopVariant(_, _, _, _, _)
MigrateLoopVariant(kind, oldids, newtokens, newuser, st) ==
    IF oldids = <<>> THEN st
    ELSE LET tid == Head(oldids)
             tok == st.tbl[tid]
             nid == IF tok.client \in DOMAIN newtokens /\ kind # "reassign"
                    THEN FirstOfNewuser(newtokens[tok.client], st.tbl, newuser)
                    ELSE Null
             merged == IF kind = "overwrite"
                       THEN ToSet(AuthTokenScope(tok))
                       ELSE ToSet(AuthTokenScope(st.tbl[nid])) \cup ToSet(AuthTokenScope(tok))
             st2 == IF nid # Null
                    THEN [tbl |-> [st.tbl EXCEPT ![nid].scope = AuthTokenScopeSet(merged)],
                          deleted |-> st.deleted \cup {IF kind = "deletenew" THEN nid ELSE tid}]
                    ELSE [tbl |-> [st.tbl EXCEPT ![tid].user = newuser],
                          deleted |-> st.deleted]
         IN  MigrateLoopVariant(kind, Tail(oldids), newtokens, newuser, st2)

MigrateLoopReassigns(oldids, newtokens, newuser, st) ==
    MigrateLoopVariant("reassign", oldids, newtokens, newuser, st)

MigrateLoopOverwrites(oldids, newtokens, newuser, st) ==
    MigrateLoopVariant("overwrite", oldids, newtokens, newuser, st)

MigrateLoopDeletesNew(oldids, newtokens, newuser, st) ==
    MigrateLoopVariant("deletenew", oldids, newtokens, newuser, st)

\* the outer loop of AuthToken.migrate_user over oldtokens; st.tbl holds the
\* live row objects by id, st.deleted the ids passed to db.session.delete
RECURSIVE MigrateLoop(_, _, _, _)
MigrateLoop(oldids, newtokens, newuser, st) ==
    IF oldids = <<>> THEN st
    ELSE LET tid == Head(oldids)
             tok == st.tbl[tid]
             nid == IF tok.client \in DOMAIN newtokens
                    THEN FirstOfNewuser(newtokens[tok.client], st.tbl, newuser)
                    ELSE Null
             st2 == IF nid # Null
                    THEN [tbl |-> [st.tbl EXCEPT ![nid].scope =
                                      AuthTokenScopeSet(ToSet(AuthTokenScope(st.tbl[nid]))
                                                        \cup ToSet(AuthTokenScope(tok)))],
                          deleted |-> st.deleted \cup {tid}]
                    ELSE [tbl |-> [st.tbl EXCEPT ![tid].user = newuser],
                          deleted |-> st.deleted]
         IN  MigrateLoop(Tail(oldids), newtokens, newuser, st2)

\* AuthToken.migrate_user past its first two lines: the queries and the loop
MigratedRows(tbl, olduser, newuser) ==
    LET ids == {r.id : r \in tbl}
        live == [i \in ids |-> Row(tbl, i)]
        oldtokens == IdsInOrder({r \in tbl : r.user = olduser})
        newrows == {r \in tbl : r.user = newuser}
        newtokens == [c \in {r.client : r \in newrows} |->
                         IdsInOrder({r \in newrows : r.client = c})]
        st == MigrateLoop(oldtokens, newtokens, newuser, [tbl |-> live, deleted |-> {}])
    IN  {st.tbl[i] : i \in ids \ st.deleted}

\* migrate_user without "if not olduser or not newuser: return"
MigratedNoGuard(tbl, olduser, newuser) == MigratedRows(tbl, olduser, newuser)

\* AuthToken.migrate_user(olduser, newuser): the table after the call
Migrated(tbl, olduser, newuser) ==
    IF olduser = None \/ newuser = None THEN tbl
    ELSE MigratedRows(tbl, olduser, newuser)

(***************************************************************************)
(* Inputs                                                                  *)
(***************************************************************************)
\* scopes as callers pass them: lists of tokens in request order
ScopeLists == {<<>>, << <<"a">> >>, << <<"b">>, <<"a">> >>}

\* arguments of add_scope: a bare string or a list of tokens
Additionals == [kind : {"str"}, val : {<<"b">>}] \cup [kind : {"list"}, val : ScopeLists]

\* what a worker answers: ok, or an error and the mismatch that caused it
Outcome(error, why) == [error |-> error, why |-> why]

NoOp == [op |-> "none", a |-> None, b |-> None]

(***************************************************************************)
(* The token table: operations of AuthToken                                *)
(***************************************************************************)
TokensOf(tbl, user, client) == {r \in tbl : r.user = user /\ r.client = client}

\* Issue/Extend AuthToken(user, client, scope): extend the row of the pair
\* when there is one, create it otherwise
IssueExtended(tbl, user, client, scope, id, n) ==
    IF TokensOf(tbl, user, client) # {}
    THEN LET row == CHOOSE r \in TokensOf(tbl, user, client) :
                        \A q \in TokensOf(tbl, user, client) : r.id <= q.id
         IN  (tbl \ {row}) \cup {AddedScope(row, [kind |-> "list", val |-> scope])}
    ELSE tbl \cup {NewAuthToken(id, user, client, scope, n)}

Init ==
    /\ authcodes = <<>>
    /\ authtokens = {}
    /\ nextid = 1
    /\ nonce = 0
    /\ pc = [w \in Workers |-> "idle"]
    /\ req = [w \in Workers |-> 0]
    /\ result = [w \in Workers |-> Outcome("none", "none")]
    /\ requested = <<>>
    /\ redeemed = <<>>
    /\ issued = <<>>
    /\ last = NoOp
    /\ userperms = {}
    /\ teamperms = {}
    /\ permnext = 1
    /\ lastperm = NoOp
    /\ organizations = {}
    /\ teams = {}
    /\ clients = {}
    /\ teamaccess = {}
    /\ permissions = {}
    /\ call = NoOp
    /\ resources = {}
    /\ resourceactions = {}
    /\ usernames = [u \in Users |-> None]
    /\ orgnames = <<>>

IssueExtendAuthToken(user, client, scope) ==
    /\ TokensOf(authtokens, user, client) = {} =>
          nextid <= MaxRows /\ nonce + NewAuthTokenDraws(user) <= MaxNonce
    /\ authtokens' = IssueExtended(authtokens, user, client, scope, nextid, nonce)
    /\ nextid' = IF TokensOf(authtokens, user, client) = {} THEN nextid + 1 ELSE nextid
    /\ nonce' = IF TokensOf(authtokens, user, client) = {}
                THEN nonce + NewAuthTokenDraws(user) ELSE nonce
    /\ last' = NoOp
    /\ UNCHANGED flowvars
    /\ UNCHANGED ledgervars

Refresh(id) ==
    /\ \E r \in authtokens : r.id = id
    /\ RefreshDoes(Row(authtokens, id)) => nonce + 2 <= MaxNonce
    /\ authtokens' = (authtokens \ {Row(authtokens, id)})
                        \cup {Refreshed(Row(authtokens, id), nonce)}
    /\ nonce' = IF RefreshDoes(Row(authtokens, id)) THEN nonce + 2 ELSE nonce
    /\ last' = [op |-> "refresh", a |-> id, b |-> None]
    /\ UNCHANGED <<nextid, flowvars>>
    /\ UNCHANGED ledgervars

AddScope(id, additional) ==
    /\ \E r \in authtokens : r.id = id
    /\ authtokens' = (authtokens \ {Row(authtokens, id)})
                        \cup {AddedScope(Row(authtokens, id), additional)}
    /\ last' = NoOp
    /\ UNCHANGED <<nextid, nonce, flowvars>>
    /\ UNCHANGED ledgervars

MigrateUser(olduser, newuser) ==
    /\ authtokens' = Migrated(authtokens, olduser, newuser)
    /\ last' = [op |-> "migrate_user", a |-> olduser, b |-> newuser]
    /\ UNCHANGED <<nextid, nonce, flowvars>>
    /\ UNCHANGED ledgervars

Next ==
    \/ \E u \in Users \cup {None}, c \in Clients, s \in ScopeLists :
          IssueExtendAuthToken(u, c, s)
    \/ \E id \in 1..MaxRows : Refresh(id)
    \/ \E id \in 1..MaxRows, x \in Additionals : AddScope(id, x)
    \/ \E o \in Users \cup {None}, n \in Users \cup {None} : MigrateUser(o, n)

Spec == Init /\ [][Next]_vars

(***************************************************************************)
(* The code-exchange flow: Issue AuthCode, Redeem AuthCode, Issue/Extend   *)
(* AuthToken, run by concurrent workers against the shared store           *)
(***************************************************************************)
\* Redeem AuthCode without the check of the used flag
RedeemValidIgnoresUsed(codes, r) ==
    /\ r.code \in DOMAIN codes
    /\ codes[r.code].client = r.client
    /\ codes[r.code].redirect_uri = r.redirect_uri

\* Redeem AuthCode validates: the code exists, is unused, belongs to the
\* requesting client, and the redirect URI matches exactly
RedeemValid(codes, r) ==
    /\ r.code \in DOMAIN codes
    /\ ~codes[r.code].used
    /\ codes[r.code].client = r.client
    /\ codes[r.code].redirect_uri = r.redirect_uri

\* the mismatch Redeem AuthCode reports, in the order it validates
Mismatch(codes, r) ==
    IF r.code \notin DOMAIN codes THEN "code not found"
    ELSE IF codes[r.code].used THEN "already used"
    ELSE IF codes[r.code].client # r.client THEN "wrong client"
    ELSE "redirect_uri mismatch"

\* the check without the mark: the used flag is never written
MarkedUsedNever(codes, r) == codes

\* the check-and-mark-used step, one atomic read-modify-write on the store
MarkedUsed(codes, r) ==
    IF RedeemValid(codes, r) THEN [codes EXCEPT ![r.code].used = TRUE] ELSE codes

IssueAuthCode(user, client, scope, redirect_uri) ==
    /\ Len(authcodes) < MaxCodes
    /\ authcodes' = Append(authcodes, NewAuthCode(user, client, scope, redirect_uri))
    /\ requested' = Append(requested, scope)
    /\ redeemed' = Append(redeemed, 0)
    /\ issued' = Append(issued, 0)
    /\ UNCHANGED <<authtokens, nextid, nonce, pc, req, result, last>>
    /\ UNCHANGED ledgervars

\* a worker takes an exchange request and runs the check-and-mark-used step
RedeemAuthCode(w, code, client, redirect_uri) ==
    /\ pc[w] = "idle"
    /\ LET r == [code |-> code, client |-> client, redirect_uri |-> redirect_uri]
       IN  /\ authcodes' = MarkedUsed(authcodes, r)
           /\ IF RedeemValid(authcodes, r)
              THEN /\ pc' = [pc EXCEPT ![w] = "issue"]
                   /\ req' = [req EXCEPT ![w] = code]
                   /\ result' = [result EXCEPT ![w] = Outcome("none", "none")]
                   /\ redeemed' = [redeemed EXCEPT ![code] = @ + 1]
              ELSE /\ result' = [result EXCEPT ![w] =
                                     Outcome("InvalidGrantError", Mismatch(authcodes, r))]
                   /\ UNCHANGED <<pc, req, redeemed>>
    /\ UNCHANGED <<authtokens, nextid, nonce, requested, issued, last>>
    /\ UNCHANGED ledgervars

\* the worker goes on to Issue/Extend AuthToken(user, client, scope) of the code
ExchangeToken(w) ==
    /\ pc[w] = "issue"
    /\ LET code == authcodes[req[w]]
           fresh == TokensOf(authtokens, code.user, code.client) = {}
       IN  /\ fresh => nextid <= MaxRows /\ nonce + NewAuthTokenDraws(code.user) <= MaxNonce
           /\ authtokens' = IssueExtended(authtokens, code.user, code.client,
                                          AuthCodeScope(code), nextid, nonce)
           /\ nextid' = IF fresh THEN nextid + 1 ELSE nextid
           /\ nonce' = IF fresh THEN nonce + NewAuthTokenDraws(code.user) ELSE nonce
    /\ issued' = [issued EXCEPT ![req[w]] = @ + 1]
    /\ pc' = [pc EXCEPT ![w] = "idle"]
    /\ req' = [req EXCEPT ![w] = 0]
    /\ result' = [result EXCEPT ![w] = Outcome("ok", "none")]
    /\ UNCHANGED <<authcodes, requested, redeemed, last>>
    /\ UNCHANGED ledgervars

NextFlow ==
    \/ \E u \in CodeUsers, c \in Clients, s \in ScopeLists, r \in IssuedRedirects :
          IssueAuthCode(u, c, s, r)
    \/ \E w \in Workers, k \in 1..MaxCodes, c \in Clients, r \in Redirects :
          RedeemAuthCode(w, k, c, r)
    \/ \E w \in Workers : ExchangeToken(w)

SpecFlow == Init /\ [][NextFlow]_vars

(***************************************************************************)
(* The permission ledger: UserClientPermissions and TeamClientPermissions  *)
(***************************************************************************)
MaxPerms == 2

Orgs == {"o1"}
Teams == {"t1"}

\* the clients permission_user_new is reached for: two owned by a user, one
\* owned by an organization
Registry ==
    {[key |-> "c1", user |-> "u1", org |-> None],
     [key |-> "c2", user |-> "u2", org |-> None],
     [key |-> "c3", user |-> None, org |-> "o1"]}

\* form.perms.data of a validated assignment form: the permission names chosen
PermsData == {{<<"a">>}, {<<"b">>}, {<<"a">>, <<"b">>}}

\* UserClientPermissions(user=, client=); access_permissions defaults to u''
NewUserClientPermissions(id, user, client) ==
    [id |-> id, user |-> user, client |-> client, access_permissions |-> <<>>]

\* TeamClientPermissions(team=, client=); access_permissions defaults to u''
NewTeamClientPermissions(id, team, client) ==
    [id |-> id, team |-> team, client |-> client, access_permissions |-> <<>>]

\* query.filter_by(...).first() on the rows that match: Null when none does
First(found) ==
    IF found = {} THEN Null ELSE (CHOOSE r \in found : \A q \in found : r.id <= q.id).id

\* permission_user_new that replaces the tokens of the row it finds
AssignedReplaces(tbl, found, fresh, data) ==
    LET permassign == IF First(found) # Null THEN Row(tbl, First(found)) ELSE fresh
    IN  (tbl \ {permassign})
            \cup {[permassign EXCEPT !.access_permissions = Join(Sorted(data))]}

\* permission_user_new, one branch: found are the rows of the pair, fresh is
\* the row to add when there is none, data the names chosen in the form
Assigned(tbl, found, fresh, data) ==
    LET permassign == IF First(found) # Null THEN Row(tbl, First(found)) ELSE fresh
        perms == (IF First(found) # Null
                  THEN ToSet(Split(permassign.access_permissions)) ELSE {}) \cup data
    IN  (tbl \ {permassign})
            \cup {[permassign EXCEPT !.access_permissions = Join(Sorted(perms))]}

UserPermsOf(tbl, user, client) == {r \in tbl : r.user = user /\ r.client = client}

TeamPermsOf(tbl, team, client) == {r \in tbl : r.team = team /\ r.client = client}

\* list.remove(x)
RECURSIVE Removed(_, _)
Removed(list, x) ==
    IF list = <<>> THEN <<>>
    ELSE IF Head(list) = x THEN Tail(list)
    ELSE <<Head(list)>> \o Removed(Tail(list), x)

\* the inner loop of UserClientPermissions.migrate_user over
\* newuser.client_permissions, for the row oid of olduser
RECURSIVE PermMergeLoop(_, _, _)
PermMergeLoop(nlist, oid, st) ==
    IF nlist = <<>> THEN st
    ELSE LET nid == Head(nlist)
             operm == st.tbl[oid]
             nperm == st.tbl[nid]
             tokens == ToSet(Split(operm.access_permissions))
                           \cup ToSet(Split(nperm.access_permissions))
             st2 == IF nperm.client = operm.client
                    THEN [st EXCEPT !.tbl[nid].access_permissions =
                                        Join(Sorted(tokens \ {<<Space>>})),
                                    !.deleted = @ \cup {oid},
                                    !.merge_performed = TRUE]
                    ELSE st
         IN  PermMergeLoop(Tail(nlist), oid, st2)

\* the outer loop of UserClientPermissions.migrate_user: "for operm in
\* olduser.client_permissions" walks the live list by position; st.olist
\* and st.nlist are the two users' client_permissions lists, and the
\* assignment operm.user = newuser moves operm from the one to the other
RECURSIVE PermMigrateLoop(_, _, _, _)
PermMigrateLoop(i, olduser, newuser, st) ==
    IF i > Len(st.olist) THEN st
    ELSE LET oid == st.olist[i]
             nlist == IF olduser = newuser THEN st.olist ELSE st.nlist
             m == PermMergeLoop(nlist, oid, [st EXCEPT !.merge_performed = FALSE])
             st2 == IF m.merge_performed THEN m
                    ELSE [m EXCEPT !.tbl[oid].user = newuser,
                                   !.olist = Removed(@, oid),
                                   !.nlist = Append(@, oid)]
         IN  PermMigrateLoop(i + 1, olduser, newuser, st2)

\* UserClientPermissions.migrate_user(olduser, newuser): the table after it
PermMigrated(tbl, olduser, newuser) ==
    LET ids == {r.id : r \in tbl}
        st == PermMigrateLoop(1, olduser, newuser,
                  [tbl |-> [i \in ids |-> Row(tbl, i)],
                   deleted |-> {},
                   merge_performed |-> FALSE,
                   olist |-> IdsInOrder({r \in tbl : r.user = olduser}),
                   nlist |-> IdsInOrder({r \in tbl : r.user = newuser})])
    IN  {st.tbl[i] : i \in ids \ st.deleted}

\* a row is stored with the default of its permissions column
AddUserClientPermissions(user, client) ==
    /\ permnext <= MaxPerms
    /\ UserPermsOf(userperms, user, client) = {}
    /\ userperms' = userperms \cup {NewUserClientPermissions(permnext, user, client)}
    /\ permnext' = permnext + 1
    /\ lastperm' = NoOp
    /\ UNCHANGED <<teamperms, tokenvars, flowvars>>
    /\ UNCHANGED <<identityvars, clients, teamaccess, catalogvars, call>>

\* permission_user_new(client) with a valid form: principal is form.user for
\* a client owned by a user, form.team for a client owned by an organization
PermissionUserNew(client, principal, data) ==
    /\ client.user # None \/ client.org # None
    /\ IF client.user # None
       THEN /\ principal \in Users
            /\ UserPermsOf(userperms, principal, client.key) = {} => permnext <= MaxPerms
            /\ userperms' = Assigned(userperms, UserPermsOf(userperms, principal, client.key),
                                NewUserClientPermissions(permnext, principal, client.key), data)
            /\ permnext' = IF UserPermsOf(userperms, principal, client.key) = {}
                           THEN permnext + 1 ELSE permnext
            /\ UNCHANGED teamperms
       ELSE /\ principal \in Teams
            /\ TeamPermsOf(teamperms, principal, client.key) = {} => permnext <= MaxPerms
            /\ teamperms' = Assigned(teamperms, TeamPermsOf(teamperms, principal, client.key),
                                NewTeamClientPermissions(permnext, principal, client.key), data)
            /\ permnext' = IF TeamPermsOf(teamperms, principal, client.key) = {}
                           THEN permnext + 1 ELSE permnext
            /\ UNCHANGED userperms
    /\ lastperm' = [op |-> "permission_user_new", a |-> principal, b |-> client.key,
                    data |-> data]
    /\ UNCHANGED <<tokenvars, flowvars>>
    /\ UNCHANGED <<identityvars, clients, teamaccess, catalogvars, call>>

UserClientPermissionsMigrateUser(olduser, newuser) ==
    /\ userperms' = PermMigrated(userperms, olduser, newuser)
    /\ lastperm' = [op |-> "migrate_user", a |-> olduser, b |-> newuser]
    /\ UNCHANGED <<teamperms, permnext, tokenvars, flowvars>>
    /\ UNCHANGED <<identityvars, clients, teamaccess, catalogvars, call>>

NextPerms ==
    \/ \E u \in Users, c \in Registry : c.user # None /\ AddUserClientPermissions(u, c.key)
    \/ \E c \in Registry, p \in Users \cup Teams, d \in PermsData : PermissionUserNew(c, p, d)
    \/ \E o \in Users, n \in Users : UserClientPermissionsMigrateUser(o, n)

SpecPerms == Init /\ [][NextPerms]_vars

(***************************************************************************)
(* Organizations, their teams, and Organization.permissions                *)
(***************************************************************************)
MaxOrgs == 2

\* the userid of the n-th Organization and of the n-th Team
OrgIds == <<"o1", "o2", "o3">>
TeamIds == <<"t1", "t2", "t3">>

\* the inherited argument of permissions(): None or a set of names
Inherited ==
    {[kind |-> "none", val |-> {}],
     [kind |-> "set", val |-> {}],
     [kind |-> "set", val |-> {"view", "edit", "delete", "siteadmin"}]}

\* the permissions() of the base class: set(inherited), or set() for None
BasePermissions(inherited) == IF inherited.kind = "set" THEN inherited.val ELSE {}

OrgRow(orgs, id) == CHOOSE o \in orgs : o.id = id

TeamRow(tms, id) == CHOOSE t \in tms : t.id = id

\* Organization(owners=...): the organization and, when no owners team came
\* with the arguments, the team "Owners" made for it; tid is the new team's id
Constructed(id, owners, tid) ==
    IF owners = None
    THEN [org |-> [id |-> id, owners |-> tid],
          newteams |-> {[id |-> tid, org |-> id, users |-> {}]}]
    ELSE [org |-> [id |-> id, owners |-> owners], newteams |-> {}]

\* Organization.permissions that only adds
OrganizationPermissionsAdditive(org, user, inherited, tms) ==
    LET perms == BasePermissions(inherited)
    IN  IF user # None /\ user \in TeamRow(tms, org.owners).users
        THEN perms \cup {"view", "edit", "delete", "view-teams", "new-team"}
        ELSE perms

\* Organization.permissions(user, inherited)
OrganizationPermissions(org, user, inherited, tms) ==
    LET perms == BasePermissions(inherited)
    IN  IF user # None /\ user \in TeamRow(tms, org.owners).users
        THEN perms \cup {"view", "edit", "delete", "view-teams", "new-team"}
        ELSE ((perms \ {"view"}) \ {"edit"}) \ {"delete"}

\* User.organizations_owned(): the organizations of the user's teams that
\* are the owners team of their organization
OrganizationsOwned(orgs, tms, user) ==
    {t.org : t \in {x \in tms : user \in x.users /\ OrgRow(orgs, x.org).owners = x.id}}

\* an Organization is constructed, with or without an owners team among
\* the arguments, and stored
NewOrganization(owners) ==
    /\ Cardinality(organizations) < MaxOrgs
    /\ owners = None \/ \E t \in teams : t.id = owners
    /\ LET made == Constructed(OrgIds[Cardinality(organizations) + 1], owners,
                               TeamIds[Cardinality(teams) + 1])
       IN  /\ organizations' = organizations \cup {made.org}
           /\ teams' = teams \cup made.newteams
           /\ call' = [op |-> "Organization", org |-> made.org.id]
    /\ UNCHANGED <<clients, teamaccess, catalogvars, permvars, tokenvars, flowvars>>

\* team.users.append(user)
TeamUsersAppend(team, user) ==
    /\ \E t \in teams : t.id = team /\ user \notin t.users
    /\ teams' = (teams \ {TeamRow(teams, team)})
                   \cup {[TeamRow(teams, team) EXCEPT !.users = @ \cup {user}]}
    /\ call' = NoOp
    /\ UNCHANGED <<organizations, clients, teamaccess, catalogvars, permvars,
                   tokenvars, flowvars>>

\* org.permissions(user, inherited) is asked
AskOrganizationPermissions(org, user, inherited) ==
    /\ \E o \in organizations : o.id = org
    /\ call' = [op |-> "Organization.permissions", org |-> org, user |-> user,
                inherited |-> inherited,
                result |-> OrganizationPermissions(OrgRow(organizations, org), user,
                                                   inherited, teams)]
    /\ UNCHANGED <<identityvars, clients, teamaccess, catalogvars, permvars,
                   tokenvars, flowvars>>

NextOrg ==
    \/ \E t \in {None} \cup {TeamIds[i] : i \in 1..MaxOrgs} : NewOrganization(t)
    \/ \E i \in 1..MaxOrgs, u \in Users : TeamUsersAppend(TeamIds[i], u)
    \/ \E i \in 1..MaxOrgs, u \in Users \cup {None}, inh \in Inherited :
          AskOrganizationPermissions(OrgIds[i], u, inh)

SpecOrg == Init /\ [][NextOrg]_vars

(***************************************************************************)
(* The client registry: client_new, client_edit, Client.permissions,       *)
(* Client.get and the validation of client credentials                     *)
(***************************************************************************)
MaxClients == 1

\* key and secret of the n-th Client: newid() and newsecret() values
ClientKeys == <<"c1", "c2", "c3">>
ClientSecrets == <<"s1", "s2", "s3">>

ClientRow(tbl, key) == CHOOSE c \in tbl : c.key = key

\* owner_is that looks at the direct owner only
OwnerIsDirect(client, user, orgs, tms) == user # None /\ client.user = user

\* Client.owner_is(user)
OwnerIs(client, user, orgs, tms) ==
    IF user = None THEN FALSE
    ELSE \/ client.user = user
         \/ (client.org # None /\ client.org \in OrganizationsOwned(orgs, tms, user))

\* Client.permissions(user, inherited)
ClientPermissions(client, user, inherited, orgs, tms) ==
    LET perms == BasePermissions(inherited) \cup {"view"}
    IN  IF user # None /\ OwnerIs(client, user, orgs, tms)
        THEN perms \cup {"edit", "delete", "assign-permissions", "new-resource"}
        ELSE perms

\* available_client_owners(): g.user and the organizations g.user owns
AvailableClientOwners(g_user, orgs, tms) == {g_user} \cup OrganizationsOwned(orgs, tms, g_user)

\* form.user and form.org of a valid form: the owner chosen is g.user, or
\* one of the organizations offered
FormOwner(g_user, choice) ==
    IF choice = g_user THEN [user |-> g_user, org |-> None]
    ELSE [user |-> None, org |-> choice]

\* Client() as client_new stores it
NewClient(n, owner, team_access) ==
    [key |-> ClientKeys[n], secret |-> ClientSecrets[n],
     user |-> owner.user, org |-> owner.org,
     active |-> TRUE, team_access |-> team_access, trusted |-> FALSE]

\* client_edit that assigns client.user and leaves client.org as it was
EditedKeepsOrg(client, owner, team_access) ==
    [client EXCEPT !.user = owner.user, !.team_access = team_access]

\* client_edit: populate_obj, client.user = form.user, client.org = form.org
Edited(client, owner, team_access) ==
    [client EXCEPT !.user = owner.user, !.org = owner.org, !.team_access = team_access]

\* Client.get that does not filter on active
ClientGetAny(tbl, key) == {c \in tbl : c.key = key}

\* Client.get(key): the rows the query matches, none or one
ClientGet(tbl, key) == {c \in tbl : c.key = key /\ c.active}

\* Client.secret_is(candidate)
SecretIs(client, candidate) == client.secret = candidate

\* request.authorization: absent, or a username and a password; the keys
\* and secrets are those a client can have, and one no client has
Authorizations ==
    {[kind |-> "none", username |-> None, password |-> None]}
        \cup [kind : {"basic"},
              username : {ClientKeys[i] : i \in DOMAIN ClientKeys} \cup {"cx"},
              password : {ClientSecrets[i] : i \in DOMAIN ClientSecrets} \cup {"sx"}]

\* _client_login_inner(): the status of the Response it returns (Null when
\* it returns none) and g.client after it
ClientLoginInner(tbl, authorization) ==
    IF authorization.kind = "none"
    THEN [response |-> 401, g_client |-> None]
    ELSE LET client == ClientGet(tbl, authorization.username)
         IN  IF client = {} \/ \E c \in client : ~SecretIs(c, authorization.password)
             THEN [response |-> 401, g_client |-> None]
             ELSE [response |-> Null, g_client |-> authorization.username]

client_new(g_user, choice, team_access) ==
    /\ Cardinality(clients) < MaxClients
    /\ choice \in AvailableClientOwners(g_user, organizations, teams)
    /\ clients' = clients \cup {NewClient(Cardinality(clients) + 1,
                                          FormOwner(g_user, choice), team_access)}
    /\ call' = [op |-> "client_new", key |-> ClientKeys[Cardinality(clients) + 1]]
    /\ UNCHANGED <<identityvars, teamaccess, catalogvars, permvars, tokenvars, flowvars>>

\* a client_edit that leaves the permission assignments of the client alone
RevokedNever(tbl, key, changed) == tbl

\* client_edit, "Ownership has changed. Remove existing permission
\* assignments": the rows of a permission-assignment table after the loop
Revoked(tbl, key, changed) ==
    IF changed THEN {r \in tbl : r.client # key} ELSE tbl

\* client_edit(client) by g.user, who needs the permission edit on it
client_edit(g_user, key, choice, team_access) ==
    /\ \E c \in clients : c.key = key
    /\ "edit" \in ClientPermissions(ClientRow(clients, key), g_user,
                                    [kind |-> "none", val |-> {}], organizations, teams)
    /\ choice \in AvailableClientOwners(g_user, organizations, teams)
    /\ LET client == ClientRow(clients, key)
           owner == FormOwner(g_user, choice)
           changed == client.user # owner.user \/ client.org # owner.org
       IN  /\ userperms' = Revoked(userperms, key, changed)
           /\ teamperms' = Revoked(teamperms, key, changed)
           /\ clients' = (clients \ {client}) \cup {Edited(client, owner, team_access)}
           /\ teamaccess' = IF ~team_access THEN {a \in teamaccess : a.client # key}
                            ELSE teamaccess
           /\ call' = [op |-> "client_edit", key |-> key, changed |-> changed]
    /\ UNCHANGED <<identityvars, catalogvars, permnext, lastperm, tokenvars, flowvars>>

\* the active flag of a client is cleared
ClientDeactivate(key) ==
    /\ \E c \in clients : c.key = key /\ c.active
    /\ clients' = (clients \ {ClientRow(clients, key)})
                     \cup {[ClientRow(clients, key) EXCEPT !.active = FALSE]}
    /\ call' = NoOp
    /\ UNCHANGED <<identityvars, teamaccess, catalogvars, permvars, tokenvars, flowvars>>

\* a request with the given credentials goes through _client_login_inner
client_login(authorization) ==
    /\ call' = [op |-> "client_login", authorization |-> authorization,
                response |-> ClientLoginInner(clients, authorization).response,
                g_client |-> ClientLoginInner(clients, authorization).g_client]
    /\ UNCHANGED <<identityvars, clients, teamaccess, catalogvars, permvars,
                   tokenvars, flowvars>>

NextClients ==
    \/ \E t \in {None} \cup {TeamIds[i] : i \in 1..MaxOrgs} : NewOrganization(t)
    \/ \E i \in 1..MaxOrgs, u \in Users : TeamUsersAppend(TeamIds[i], u)
    \/ \E u \in Users, o \in Users \cup {OrgIds[i] : i \in 1..MaxOrgs}, ta \in BOOLEAN :
          client_new(u, o, ta)
    \/ \E u \in Users, k \in 1..MaxClients,
          o \in Users \cup {OrgIds[i] : i \in 1..MaxOrgs}, ta \in BOOLEAN :
          client_edit(u, ClientKeys[k], o, ta)

SpecClients == Init /\ [][NextClients]_vars

NextLogin ==
    \/ \E u \in Users, ta \in BOOLEAN : client_new(u, u, ta)
    \/ \E k \in 1..MaxClients : ClientDeactivate(ClientKeys[k])
    \/ \E a \in Authorizations : client_login(a)

SpecLogin == Init /\ [][NextLogin]_vars

(***************************************************************************)
(* Permission.get                                                          *)
(***************************************************************************)
\* the Permission rows a lookup can meet: p of a user, p of an organization,
\* p for all users, and q of a user
PermissionRows ==
    {[id |-> 1, name |-> "p", user |-> "u1", org |-> None, allusers |-> FALSE],
     [id |-> 2, name |-> "p", user |-> None, org |-> "o1", allusers |-> FALSE],
     [id |-> 3, name |-> "p", user |-> None, org |-> None, allusers |-> TRUE],
     [id |-> 4, name |-> "q", user |-> "u1", org |-> None, allusers |-> FALSE]}

PermissionNames == {"p", "q"}

\* a check that refuses only the call with neither user nor org
BadArgumentsNeither(user, org) == user = None /\ org = None

\* not bool(user) ^ bool(org)
BadArguments(user, org) == ~((user # None) # (org # None))

\* Permission.get(name, user, org, allusers): the error raised, if any, and
\* the id of the row returned (Null for no row)
PermissionGet(tbl, name, user, org, allusers) ==
    IF allusers
    THEN [error |-> "none", result |-> First({r \in tbl : r.name = name /\ r.allusers})]
    ELSE IF BadArguments(user, org)
    THEN [error |-> "TypeError", result |-> Null]
    ELSE IF user # None
    THEN [error |-> "none", result |-> First({r \in tbl : r.name = name /\ r.user = user})]
    ELSE [error |-> "none", result |-> First({r \in tbl : r.name = name /\ r.org = org})]

\* the Permission table holds any of the rows; every other table is empty
InitPermission ==
    /\ permissions \in SUBSET PermissionRows
    /\ authcodes = <<>>
    /\ authtokens = {}
    /\ nextid = 1
    /\ nonce = 0
    /\ pc = [w \in Workers |-> "idle"]
    /\ req = [w \in Workers |-> 0]
    /\ result = [w \in Workers |-> Outcome("none", "none")]
    /\ requested = <<>>
    /\ redeemed = <<>>
    /\ issued = <<>>
    /\ last = NoOp
    /\ userperms = {}
    /\ teamperms = {}
    /\ permnext = 1
    /\ lastperm = NoOp
    /\ organizations = {}
    /\ teams = {}
    /\ clients = {}
    /\ teamaccess = {}
    /\ call = NoOp
    /\ resources = {}
    /\ resourceactions = {}
    /\ usernames = [u \in Users |-> None]
    /\ orgnames = <<>>

AskPermissionGet(name, user, org, allusers) ==
    /\ call' = [op |-> "Permission.get", name |-> name, user |-> user, org |-> org,
                allusers |-> allusers,
                error |-> PermissionGet(permissions, name, user, org, allusers).error,
                result |-> PermissionGet(permissions, name, user, org, allusers).result]
    /\ UNCHANGED <<identityvars, clients, teamaccess, catalogvars, permvars,
                   tokenvars, flowvars>>

NextPermission ==
    \E name \in PermissionNames, user \in Users \cup {None}, org \in Orgs \cup {None},
       allusers \in BOOLEAN : AskPermissionGet(name, user, org, allusers)

SpecPermission == InitPermission /\ [][NextPermission]_vars


(***************************************************************************)
(* AuthToken.algorithm                                                     *)
(***************************************************************************)
\* values assigned to AuthToken.algorithm: None, the two names, other strings
AlgorithmValues == {None, "hmac-sha-1", "hmac-sha-256", "md5", ""}

\* an algorithm setter that keeps the secret when it clears the algorithm
AlgorithmSetKeepsSecret(token, value) ==
    IF value = None
    THEN [token |-> [token EXCEPT !.algorithm = None], raised |-> FALSE]
    ELSE IF value \in {"hmac-sha-1", "hmac-sha-256"}
    THEN [token |-> [token EXCEPT !.algorithm = value], raised |-> FALSE]
    ELSE [token |-> token, raised |-> TRUE]

\* the AuthToken.algorithm setter: the row after the assignment, and whether
\* ValueError was raised
AlgorithmSet(token, value) ==
    IF value = None
    THEN [token |-> [token EXCEPT !.algorithm = None, !.secret = Null], raised |-> FALSE]
    ELSE IF value \in {"hmac-sha-1", "hmac-sha-256"}
    THEN [token |-> [token EXCEPT !.algorithm = value], raised |-> FALSE]
    ELSE [token |-> token, raised |-> TRUE]

\* token.algorithm = value on the row with the given id
SetAlgorithm(id, value) ==
    /\ \E r \in authtokens : r.id = id
    /\ authtokens' = (authtokens \ {Row(authtokens, id)})
                        \cup {AlgorithmSet(Row(authtokens, id), value).token}
    /\ call' = [op |-> "algorithm", id |-> id, value |-> value,
                raised |-> AlgorithmSet(Row(authtokens, id), value).raised]
    /\ UNCHANGED <<nextid, nonce, last, flowvars, permvars, identityvars, clients,
                   teamaccess, catalogvars>>

NextAlgorithm ==
    \/ \E u \in {"u1", None}, c \in Clients : IssueExtendAuthToken(u, c, << <<"a">> >>)
    \/ \E id \in 1..MaxRows, v \in AlgorithmValues : SetAlgorithm(id, v)

SpecAlgorithm == Init /\ [][NextAlgorithm]_vars


(***************************************************************************)
(* AuthCode.add_scope                                                      *)
(***************************************************************************)
\* Python's list(S) for a set S: the items in the order the set's hash table
\* yields them, which is fixed by the items' hashes and not by the order in
\* which they were added: any order of the items
ListOfSet(S) == {s \in [1..Cardinality(S) -> S] : ToSet(s) = S}

\* AuthCode.add_scope: the rows it can leave, one for each order list(set(...))
\* can come out in
AuthCodeAddedScope(code, additional) ==
    {[code EXCEPT !.scope = AuthCodeScopeSet(order)] :
        order \in ListOfSet(ToSet(AuthCodeScope(code)) \cup ToSet(Normalise(additional)))}

\* code.add_scope(additional) on the k-th AuthCode
AuthCodeAddScope(k, additional) ==
    /\ k \in DOMAIN authcodes
    /\ \E row \in AuthCodeAddedScope(authcodes[k], additional) :
          authcodes' = [authcodes EXCEPT ![k] = row]
    /\ call' = [op |-> "AuthCode.add_scope", code |-> k]
    /\ UNCHANGED <<pc, req, result, requested, redeemed, issued, tokenvars, permvars,
                   identityvars, clients, teamaccess, catalogvars>>

NextCodeScope ==
    \/ \E u \in CodeUsers, s \in ScopeLists, r \in IssuedRedirects :
          IssueAuthCode(u, "c1", s, r)
    \/ \E k \in 1..MaxCodes, x \in Additionals : AuthCodeAddScope(k, x)

SpecCodeScope == Init /\ [][NextCodeScope]_vars


(***************************************************************************)
(* Scopes of AuthCode and AuthToken rows side by side                      *)
(***************************************************************************)
NextScopes ==
    \/ NextCodeScope
    \/ \E u \in {"u1", None}, s \in ScopeLists : IssueExtendAuthToken(u, "c1", s)
    \/ \E id \in 1..MaxRows, x \in Additionals : AddScope(id, x)

SpecScopes == Init /\ [][NextScopes]_vars


(***************************************************************************)
(* The scope properties as functions of the stored string                  *)
(***************************************************************************)
\* stored scope strings: every string of tokens' characters and spaces
ScopeStrings == UNION {[1..n -> {"a", "b", Space}] : n \in 0..MaxLen}

\* code.scope = code.scope on an AuthCode that stores s: the getter's list
\* goes to the setter
AuthCodeScopeRoundTrip(s) ==
    /\ call' = [op |-> "AuthCode.scope", s |-> s,
                stored |-> AuthCodeScopeSet(AuthCodeScope([scope |-> s]))]
    /\ UNCHANGED <<identityvars, clients, teamaccess, catalogvars, permvars,
                   tokenvars, flowvars>>

\* token.scope = set(token.scope) on an AuthToken that stores s, which is
\* what add_scope and migrate_user write when nothing is added
AuthTokenScopeRoundTrip(s) ==
    /\ call' = [op |-> "AuthToken.scope", s |-> s,
                stored |-> AuthTokenScopeSet(ToSet(AuthTokenScope([scope |-> s])))]
    /\ UNCHANGED <<identityvars, clients, teamaccess, catalogvars, permvars,
                   tokenvars, flowvars>>

NextRoundTrip ==
    \/ \E s \in ScopeStrings : AuthCodeScopeRoundTrip(s)
    \/ \E s \in ScopeStrings : AuthTokenScopeRoundTrip(s)

SpecRoundTrip == Init /\ [][NextRoundTrip]_vars


(***************************************************************************)
(* add_scope applied twice: in both orders, and the same argument again    *)
(***************************************************************************)
ScopeKinds == {"AuthCode", "AuthToken"}

\* a record of either class made with the given scope
ScopeRecord(kind, scope) ==
    IF kind = "AuthCode" THEN NewAuthCode("u1", "c1", scope, "r1")
    ELSE NewAuthToken(1, "u1", "c1", scope, 0)

\* add_scope of either class: the records it can leave
AddScopeOutcomes(kind, record, additional) ==
    IF kind = "AuthCode" THEN AuthCodeAddedScope(record, additional)
    ELSE {AddedScope(record, additional)}

\* r.add_scope(a); r.add_scope(b) on one record and r.add_scope(b);
\* r.add_scope(a) on another made with the same scope
AddScopeBothOrders(kind, scope, a, b) ==
    /\ \E ra \in AddScopeOutcomes(kind, ScopeRecord(kind, scope), a),
          rb \in AddScopeOutcomes(kind, ScopeRecord(kind, scope), b) :
          \E rab \in AddScopeOutcomes(kind, ra, b), rba \in AddScopeOutcomes(kind, rb, a) :
              call' = [op |-> "add_scope a b", kind |-> kind, scope |-> scope,
                       a |-> a, b |-> b, ab |-> rab.scope, ba |-> rba.scope]
    /\ UNCHANGED <<identityvars, clients, teamaccess, catalogvars, permvars,
                   tokenvars, flowvars>>

\* r.add_scope(a); r.add_scope(a)
AddScopeTwice(kind, scope, a) ==
    /\ \E ra \in AddScopeOutcomes(kind, ScopeRecord(kind, scope), a) :
          \E raa \in AddScopeOutcomes(kind, ra, a) :
              call' = [op |-> "add_scope a a", kind |-> kind, scope |-> scope,
                       a |-> a, once |-> ra.scope, twice |-> raa.scope]
    /\ UNCHANGED <<identityvars, clients, teamaccess, catalogvars, permvars,
                   tokenvars, flowvars>>

\* r.add_scope(x) with x a bare string
AddScopeString(kind, scope, x) ==
    /\ \E r \in AddScopeOutcomes(kind, ScopeRecord(kind, scope), [kind |-> "str", val |-> x]) :
          call' = [op |-> "add_scope str", kind |-> kind, scope |-> scope,
                   a |-> x, stored |-> r.scope]
    /\ UNCHANGED <<identityvars, clients, teamaccess, catalogvars, permvars,
                   tokenvars, flowvars>>

NextExtension ==
    \/ \E k \in ScopeKinds, s \in ScopeLists, a \in Additionals, b \in Additionals :
          AddScopeBothOrders(k, s, a, b)
    \/ \E k \in ScopeKinds, s \in ScopeLists, a \in Additionals : AddScopeTwice(k, s, a)
    \/ \E k \in ScopeKinds, s \in ScopeLists, x \in Tokens : AddScopeString(k, s, x)

SpecExtension == Init /\ [][NextExtension]_vars


(***************************************************************************)
(* Resources, and the deletion of a Client with the rows that belong to it *)
(***************************************************************************)
\* names typed into ResourceForm and ResourceActionForm
ResourceNames == {"res1", "res2"}
ActionNames == {"read"}

\* Resource(client=client) populated from the form; the name is unique
NewResource(name, client) == [name |-> name, client |-> client]

\* ResourceAction(resource=resource) populated from the form
NewResourceAction(name, resource) == [name |-> name, resource |-> resource]

\* Resource.permissions(user, inherited)
ResourcePermissions(resource, user, inherited, tbl, orgs, tms) ==
    IF user # None /\ OwnerIs(ClientRow(tbl, resource.client), user, orgs, tms)
    THEN BasePermissions(inherited) \cup {"edit", "delete", "new-action"}
    ELSE BasePermissions(inherited)

\* resource_new(client) by g.user, who needs the permission new-resource
resource_new(g_user, key, name) ==
    /\ \E c \in clients : c.key = key
    /\ "new-resource" \in ClientPermissions(ClientRow(clients, key), g_user,
                                            [kind |-> "none", val |-> {}], organizations, teams)
    /\ \A r \in resources : r.name # name
    /\ resources' = resources \cup {NewResource(name, key)}
    /\ call' = [op |-> "resource_new", key |-> key]
    /\ UNCHANGED <<identityvars, clients, teamaccess, permissions, resourceactions,
                   namevars, permvars, tokenvars, flowvars>>

\* resource_action_new(client, resource) by g.user, who needs new-action
resource_action_new(g_user, resource, name) ==
    /\ \E r \in resources : r.name = resource
    /\ "new-action" \in ResourcePermissions(CHOOSE r \in resources : r.name = resource, g_user,
                                            [kind |-> "none", val |-> {}],
                                            clients, organizations, teams)
    /\ \A a \in resourceactions : ~(a.name = name /\ a.resource = resource)
    /\ resourceactions' = resourceactions \cup {NewResourceAction(name, resource)}
    /\ call' = [op |-> "resource_action_new", key |-> resource]
    /\ UNCHANGED <<identityvars, clients, teamaccess, permissions, resources,
                   namevars, permvars, tokenvars, flowvars>>

\* a delete that does not cascade
CascadeKeepsAll(tbl, key) == tbl

\* cascade="all, delete-orphan" on a backref of Client: of a table with a
\* client column, the rows left when the client with the given key is deleted
CascadeKeeps(tbl, key) == {r \in tbl : r.client # key}

\* the items of a list at the positions kept, in order
AtPositions(seq, keep) ==
    LET F[i \in 0..Len(seq)] ==
            IF i = 0 THEN <<>>
            ELSE IF i \in keep THEN Append(F[i - 1], seq[i]) ELSE F[i - 1]
    IN  F[Len(seq)]

\* client_delete(client) by g.user, who needs the permission delete:
\* db.session.delete(client) and the cascades of the backrefs resources (and
\* their actions), authcodes, authtokens, user_permissions, team_permissions
\* and org_team_access
client_delete(g_user, key) ==
    /\ \E c \in clients : c.key = key
    /\ "delete" \in ClientPermissions(ClientRow(clients, key), g_user,
                                      [kind |-> "none", val |-> {}], organizations, teams)
    /\ clients' = clients \ {ClientRow(clients, key)}
    /\ resources' = CascadeKeeps(resources, key)
    /\ resourceactions' =
          {a \in resourceactions : a.resource \in {r.name : r \in CascadeKeeps(resources, key)}}
    /\ LET keep == {k \in DOMAIN authcodes :
                       authcodes[k] \in CascadeKeeps(ToSet(authcodes), key)}
       IN  /\ authcodes' = AtPositions(authcodes, keep)
           /\ requested' = AtPositions(requested, keep)
           /\ redeemed' = AtPositions(redeemed, keep)
           /\ issued' = AtPositions(issued, keep)
    /\ authtokens' = CascadeKeeps(authtokens, key)
    /\ userperms' = CascadeKeeps(userperms, key)
    /\ teamperms' = CascadeKeeps(teamperms, key)
    /\ teamaccess' = CascadeKeeps(teamaccess, key)
    /\ call' = [op |-> "client_delete", key |-> key]
    /\ UNCHANGED <<identityvars, permissions, namevars, permnext, lastperm, nextid, nonce,
                   last, pc, req, result>>

\* u1 owns the client c1 and, through the owners team t1 of the organization
\* o1, the client c2; nothing has been made for the two clients yet
InitRegistry ==
    /\ organizations = {[id |-> "o1", owners |-> "t1"]}
    /\ teams = {[id |-> "t1", org |-> "o1", users |-> {"u1"}]}
    /\ clients = {NewClient(1, [user |-> "u1", org |-> None], FALSE),
                  NewClient(2, [user |-> None, org |-> "o1"], FALSE)}
    /\ authcodes = <<>>
    /\ authtokens = {}
    /\ nextid = 1
    /\ nonce = 0
    /\ pc = [w \in Workers |-> "idle"]
    /\ req = [w \in Workers |-> 0]
    /\ result = [w \in Workers |-> Outcome("none", "none")]
    /\ requested = <<>>
    /\ redeemed = <<>>
    /\ issued = <<>>
    /\ last = NoOp
    /\ userperms = {}
    /\ teamperms = {}
    /\ permnext = 1
    /\ lastperm = NoOp
    /\ teamaccess = {}
    /\ permissions = {}
    /\ call = NoOp
    /\ resources = {}
    /\ resourceactions = {}
    /\ usernames = [u \in Users |-> None]
    /\ orgnames = [o \in Orgs |-> None]

NextDelete ==
    \/ \E u \in {"u1", None}, c \in clients : IssueExtendAuthToken(u, c.key, << <<"a">> >>)
    \/ \E c \in clients : IssueAuthCode("u1", c.key, << <<"a">> >>, "r1")
    \/ \E c \in clients, p \in {"u2"} \cup Teams : PermissionUserNew(c, p, {<<"a">>})
    \/ \E g \in Users, c \in clients, n \in ResourceNames : resource_new(g, c.key, n)
    \/ \E g \in Users, r \in resources, a \in ActionNames : resource_action_new(g, r.name, a)
    \/ \E g \in Users, c \in clients : client_delete(g, c.key)

SpecDelete == InitRegistry /\ [][NextDelete]_vars


(***************************************************************************)
(* ClientTeamAccess, and client_edit on clients with rows assigned         *)
(***************************************************************************)
CLIENT_TEAM_ACCESS == [NONE |-> 0, ALL |-> 1]

\* Organization.clients_with_team_access()
ClientsWithTeamAccess(access, org) ==
    {a.client : a \in {x \in access : x.org = org /\ x.access_level = CLIENT_TEAM_ACCESS.ALL}}

\* client_team_access(client) by g.user with form.organizations.data = data,
\* some of the organizations g.user owns
client_team_access(g_user, key, data) ==
    /\ \E c \in clients : c.key = key
    /\ LET user_orgs == OrganizationsOwned(organizations, teams, g_user)
           org_selected == {o \in user_orgs : key \in ClientsWithTeamAccess(teamaccess, o)}
           org_del == org_selected \ data
           org_add == data \ org_selected
       IN  /\ data \subseteq user_orgs
           /\ teamaccess' = {a \in teamaccess : ~(a.client = key /\ a.org \in org_del)}
                               \cup {[org |-> o, client |-> key,
                                      access_level |-> CLIENT_TEAM_ACCESS.ALL] : o \in org_add}
    /\ call' = [op |-> "client_team_access", key |-> key]
    /\ UNCHANGED <<identityvars, clients, catalogvars, permvars, tokenvars, flowvars>>

NextEdit ==
    \/ \E c \in clients, p \in {"u2"} \cup Teams : PermissionUserNew(c, p, {<<"a">>})
    \/ \E g \in Users, c \in clients, d \in SUBSET Orgs : client_team_access(g, c.key, d)
    \/ \E g \in Users, c \in clients, o \in Users \cup Orgs, ta \in BOOLEAN :
          client_edit(g, c.key, o, ta)

SpecEdit == InitRegistry /\ [][NextEdit]_vars


(***************************************************************************)
(* User.username and Organization.name                                     *)
(***************************************************************************)
\* the organizations that are given names
NamedOrgs == {"o1", "o2"}

\* values assigned: names, the userid of u2, a string valid_username
\* refuses, the empty string; None is assigned to User.username only
NameValues == {"n1", "n2", "u2", "N!", ""}

\* coaster's valid_username on the values assigned
ValidUsername(value) == value \in {"n1", "n2", "u2"}

\* Python's "not value"
Falsy(value) == value = None \/ value = ""

\* is_valid_username that does not ask Organization.get
IsValidUsernameAmongUsers(self, value, existing, onames) ==
    IF ~ValidUsername(value) THEN FALSE
    ELSE IF existing # None /\ existing # self THEN FALSE
    ELSE TRUE

\* User.is_valid_username(value); existing is the row the query's first()
\* gave, None when no row matched
IsValidUsername(self, value, existing, onames) ==
    IF ~ValidUsername(value) THEN FALSE
    ELSE IF existing # None /\ existing # self THEN FALSE
    ELSE IF \E o \in DOMAIN onames : onames[o] = value THEN FALSE
    ELSE TRUE

\* the User.username setter
UsernameSet(self, value, existing, unames, onames) ==
    IF Falsy(value) THEN [unames EXCEPT ![self] = None]
    ELSE IF IsValidUsername(self, value, existing, onames)
    THEN [unames EXCEPT ![self] = value]
    ELSE unames

\* Organization.valid_name(value); existing is the row Organization.get gave
ValidName(self, value, existing, unames) ==
    IF ~ValidUsername(value) THEN FALSE
    ELSE IF existing # None /\ existing # self THEN FALSE
    ELSE IF \E u \in DOMAIN unames : unames[u] = value THEN FALSE
    ELSE TRUE

\* the Organization.name setter
NameSet(self, value, existing, unames, onames) ==
    IF ValidName(self, value, existing, unames) THEN [onames EXCEPT ![self] = value]
    ELSE onames

\* what first() can give for a query with these matching rows
FirstOf(found) == IF found = {} THEN {None} ELSE found

\* user.username = value
SetUsername(user, value) ==
    /\ \E existing \in FirstOf({u \in DOMAIN usernames : usernames[u] = value \/ u = value}) :
          usernames' = UsernameSet(user, value, existing, usernames, orgnames)
    /\ call' = [op |-> "User.username", who |-> user, value |-> value,
                previous |-> usernames[user]]
    /\ UNCHANGED <<orgnames, identityvars, clients, teamaccess, permissions, resources,
                   resourceactions, permvars, tokenvars, flowvars>>

\* org.name = value
SetName(org, value) ==
    /\ \E existing \in FirstOf({o \in DOMAIN orgnames : orgnames[o] = value}) :
          orgnames' = NameSet(org, value, existing, usernames, orgnames)
    /\ call' = [op |-> "Organization.name", who |-> org, value |-> value,
                previous |-> orgnames[org]]
    /\ UNCHANGED <<usernames, identityvars, clients, teamaccess, permissions, resources,
                   resourceactions, permvars, tokenvars, flowvars>>

\* two users and two organizations, none of them named yet
InitNames ==
    /\ usernames = [u \in Users |-> None]
    /\ orgnames = [o \in NamedOrgs |-> None]
    /\ organizations = {Constructed(o, None, IF o = "o1" THEN "t1" ELSE "t2").org :
                           o \in NamedOrgs}
    /\ teams = UNION {Constructed(o, None, IF o = "o1" THEN "t1" ELSE "t2").newteams :
                         o \in NamedOrgs}
    /\ clients = {}
    /\ authcodes = <<>>
    /\ authtokens = {}
    /\ nextid = 1
    /\ nonce = 0
    /\ pc = [w \in Workers |-> "idle"]
    /\ req = [w \in Workers |-> 0]
    /\ result = [w \in Workers |-> Outcome("none", "none")]
    /\ requested = <<>>
    /\ redeemed = <<>>
    /\ issued = <<>>
    /\ last = NoOp
    /\ userperms = {}
    /\ teamperms = {}
    /\ permnext = 1
    /\ lastperm = NoOp
    /\ teamaccess = {}
    /\ permissions = {}
    /\ call = NoOp
    /\ resources = {}
    /\ resourceactions = {}

NextNames ==
    \/ \E u \in Users, v \in NameValues \cup {None} : SetUsername(u, v)
    \/ \E o \in NamedOrgs, v \in NameValues : SetName(o, v)

SpecNames == InitNames /\ [][NextNames]_vars

(***************************************************************************)
(* Properties                                                              *)
(***************************************************************************)
\* the scope of a token row, as the set of the items its scope property gives
ScopeOf(t) == ToSet(AuthTokenScope(t))

CodesOf(user, client) ==
    {k \in DOMAIN authcodes : authcodes[k].user = user /\ authcodes[k].client = client}

\* C1: the used flag of an AuthCode never goes back to false and is set by at
\* most one redemption; a redemption attempted on a used code answers
\* InvalidGrantError and changes neither the codes nor the tokens.
C1_SingleUse ==
    [][/\ \A k \in DOMAIN authcodes :
             /\ authcodes[k].used => authcodes'[k].used
             /\ redeemed'[k] <= 1
       /\ \A w \in Workers, k \in DOMAIN authcodes, c \in Clients, r \in Redirects :
             (authcodes[k].used /\ RedeemAuthCode(w, k, c, r)) =>
                /\ result'[w].error = "InvalidGrantError"
                /\ authcodes' = authcodes
                /\ authtokens' = authtokens]_vars

\* a second redemption of a code was refused after the first one produced its token
C1_Witness ==
    \E w \in Workers, k \in DOMAIN authcodes :
        /\ result[w] = Outcome("InvalidGrantError", "already used")
        /\ \A j \in DOMAIN authcodes : authcodes[j].used <=> j = k
        /\ issued[k] = 1
        /\ TokensOf(authtokens, authcodes[k].user, authcodes[k].client) # {}

\* C2: for every non-null user and every client there is at most one
\* AuthToken row, whatever issue/extend, refresh, add_scope and migrate_user
\* calls were made.
C2_OneTokenPerUserClient ==
    \A u \in Users, c \in Clients : Cardinality(TokensOf(authtokens, u, c)) <= 1

\* a migration into a user who held a token for the same client has run
C2_Witness ==
    /\ last.op = "migrate_user"
    /\ last.a \in Users /\ last.b \in Users /\ last.a # last.b
    /\ Cardinality(authtokens) < nextid - 1
    /\ \E c \in Clients : Cardinality(TokensOf(authtokens, last.b, c)) = 1

\* C3: of the redemptions of one AuthCode, concurrent or not, at most one
\* succeeds, and at most one token issuance/extension results from the code.
C3_AtMostOneRedemption ==
    \A k \in DOMAIN authcodes : redeemed[k] <= 1 /\ issued[k] <= 1

\* a worker was refused the code that the other worker has marked used and
\* not yet exchanged
C3_Witness ==
    \E w1 \in Workers, w2 \in Workers :
        /\ w1 # w2
        /\ pc[w1] = "issue"
        /\ \A j \in DOMAIN authcodes : authcodes[j].used <=> j = req[w1]
        /\ result[w2] = Outcome("InvalidGrantError", "already used")

\* C4: after one worker has exchanged, one after the other, two codes of one
\* (user, client) pair, requested with scopes S1 and S2, the pair has exactly
\* one AuthToken row (rows are never deleted in the flow, so it is the row
\* of the first exchange) and the scope it stores is that of S1 \cup S2.
C4_TwoExchangesUnion ==
    \A u \in Users, c \in Clients :
        LET ks == {k \in CodesOf(u, c) : issued[k] = 1}
        IN  (/\ Cardinality(ks) = 2
             /\ \A w \in Workers : pc[w] = "idle"
             /\ \E w \in Workers : \A v \in Workers \ {w} : result[v] = Outcome("none", "none")) =>
               /\ Cardinality(TokensOf(authtokens, u, c)) = 1
               /\ \A t \in TokensOf(authtokens, u, c) :
                     t.scope = AuthTokenScopeSet(UNION {ToSet(requested[k]) : k \in ks})

\* C5: when two workers have each redeemed a code of the same (user, client)
\* pair and are both about to issue/extend the token, either order of the
\* two steps ends with one row for the pair, which stores the scope S1 \cup S2.
C5_ConcurrentExchangesUnion ==
    \A w1 \in Workers, w2 \in Workers :
        (w1 # w2 /\ pc[w1] = "issue" /\ pc[w2] = "issue") =>
            LET k1 == authcodes[req[w1]]
                k2 == authcodes[req[w2]]
                t1 == IssueExtended(authtokens, k1.user, k1.client, AuthCodeScope(k1),
                                    nextid, nonce)
                t2 == IssueExtended(t1, k2.user, k2.client, AuthCodeScope(k2),
                                    nextid + 1, nonce + NewAuthTokenDraws(k1.user))
            IN  (k1.user = k2.user /\ k1.client = k2.client
                 /\ TokensOf(authtokens, k1.user, k1.client) = {}) =>
                    /\ Cardinality(TokensOf(t2, k1.user, k1.client)) = 1
                    /\ \A t \in TokensOf(t2, k1.user, k1.client) :
                          t.scope = AuthTokenScopeSet(ToSet(requested[req[w1]])
                                                      \cup ToSet(requested[req[w2]]))

\* C6: after migrate_user(oldUser, newUser) for two different users, for
\* every client for which oldUser held a token: newUser holds exactly one
\* token, its scope is the union of the scopes the two users' tokens for
\* that client had, and oldUser holds none.
C6_MigrateMergesScopes ==
    [][last'.op = "migrate_user" =>
        \A o \in Users, n \in Users :
            (o # n /\ last'.a = o /\ last'.b = n) =>
                \A c \in Clients :
                    TokensOf(authtokens, o, c) # {} =>
                        /\ Cardinality(TokensOf(authtokens', n, c)) = 1
                        /\ \A t \in TokensOf(authtokens', n, c) :
                              ScopeOf(t) = UNION {ScopeOf(x) :
                                  x \in TokensOf(authtokens, o, c) \cup TokensOf(authtokens, n, c)}
                        /\ TokensOf(authtokens', o, c) = {}]_vars

\* migrate_user has merged a token into the one newUser held: one row is left
\* of the two created, it is newUser's, and it carries both scope tokens
C6_Witness ==
    /\ last.op = "migrate_user"
    /\ last.a \in Users /\ last.b \in Users /\ last.a # last.b
    /\ nextid = 3
    /\ \E t \in authtokens :
          authtokens = {t} /\ t.user = last.b /\ Tokens \subseteq ScopeOf(t)

\* C7: right after migrate_user(oldUser, newUser), for any two arguments, a
\* second migrate_user(oldUser, newUser) leaves every token row as it is.
C7_MigrateIdempotent ==
    last.op = "migrate_user" => Migrated(authtokens, last.a, last.b) = authtokens

\* migrate_user has run on two users, a row has been merged away, and all
\* the tokens of the two users are now newUser's
C7_Witness ==
    /\ last.op = "migrate_user"
    /\ last.a \in Users /\ last.b \in Users /\ last.a # last.b
    /\ Cardinality(authtokens) < nextid - 1
    /\ \A t \in authtokens : t.user # last.a
    /\ \E t \in authtokens : t.user = last.b

\* C8: migrate_user, whatever its arguments, leaves the client-only tokens
\* (user = null) as they are: none changes, none goes, none appears.
C8_MigrateKeepsClientOnly ==
    [][last'.op = "migrate_user" =>
          {t \in authtokens' : t.user = None} = {t \in authtokens : t.user = None}]_vars

\* migrate_user was called with a null oldUser while client-only tokens existed
C8_Witness ==
    /\ last.op = "migrate_user"
    /\ last.a = None /\ last.b \in Users
    /\ \E t \in authtokens : t.user = None
    /\ \E t \in authtokens : t.user = last.b

\* C9: refresh() on a token with a refresh_token replaces token and secret by
\* values that differ from the previous ones and from every token in use,
\* and changes no other field of the row and no other row.
C9_RefreshRotates ==
    [][last'.op = "refresh" =>
          LET old == Row(authtokens, last'.a)
              new == Row(authtokens', last'.a)
          IN  old.refresh_token # Null =>
                 /\ new.token # old.token
                 /\ new.secret # old.secret
                 /\ new.token \notin {q.token : q \in authtokens}
                 /\ [new EXCEPT !.token = old.token, !.secret = old.secret] = old
                 /\ authtokens' \ {new} = authtokens \ {old}]_vars

\* a user's token has been refreshed: its token is younger than its refresh token
C9_Witness ==
    /\ last.op = "refresh"
    /\ \E t \in authtokens :
          t.id = last.a /\ t.user # None /\ t.refresh_token # Null
          /\ t.token > t.refresh_token

\* C10: refresh() on a client-only token (no user, no refresh_token) changes
\* nothing: not the row, not another row, and no random value is drawn.
C10_RefreshClientOnlyNoOp ==
    [][last'.op = "refresh" =>
          LET old == Row(authtokens, last'.a)
          IN  (old.user = None /\ old.refresh_token = Null) =>
                 authtokens' = authtokens /\ nonce' = nonce]_vars

\* refresh() has been called on a client-only token
C10_Witness ==
    /\ last.op = "refresh"
    /\ \E t \in authtokens : t.id = last.a /\ t.user = None /\ t.refresh_token = Null

\* C11: after UserClientPermissions.migrate_user(oldUser, newUser) for two
\* different users every row oldUser had is handled: oldUser owns no row; a
\* row for a client where only oldUser had one is now newUser's with its
\* permissions as they were; where both had a row, oldUser's row is gone
\* and newUser's row holds the union of the two token sets.
C11_MigrateHandlesEveryRow ==
    [][(lastperm'.op = "migrate_user" /\ lastperm'.a # lastperm'.b) =>
          /\ \A r \in userperms' : r.user # lastperm'.a
          /\ \A x \in userperms : x.user = lastperm'.a =>
                IF UserPermsOf(userperms, lastperm'.b, x.client) = {}
                THEN [x EXCEPT !.user = lastperm'.b] \in userperms'
                ELSE /\ \A r \in userperms' : r.id # x.id
                     /\ \A y \in UserPermsOf(userperms, lastperm'.b, x.client) :
                           \E r \in userperms' :
                               /\ r.id = y.id /\ r.user = y.user /\ r.client = y.client
                               /\ ToSet(Split(r.access_permissions)) =
                                     ToSet(Split(x.access_permissions))
                                         \cup ToSet(Split(y.access_permissions))]_vars

\* C12: when migrate_user(oldUser, newUser) merges a row of oldUser into the
\* row newUser has for the same client, the string it writes to newUser's
\* row has no empty token: it is empty or splits into non-empty items.
C12_MergeWritesNoEmptyToken ==
    [][(lastperm'.op = "migrate_user" /\ lastperm'.a # lastperm'.b) =>
          \A x \in userperms, y \in userperms :
              (x.user = lastperm'.a /\ y.user = lastperm'.b /\ x.client = y.client) =>
                  \A r \in userperms' : r.id = y.id =>
                      \/ r.access_permissions = <<>>
                      \/ <<>> \notin ToSet(Split(r.access_permissions))]_vars

\* C13: right after UserClientPermissions.migrate_user(oldUser, newUser) a
\* second migrate_user(oldUser, newUser) leaves every assignment row and its
\* tokens as they are.
C13_PermMigrateIdempotent ==
    lastperm.op = "migrate_user" =>
        PermMigrated(userperms, lastperm.a, lastperm.b) = userperms

C16_OwnersBelongsToOrganization ==
    \A o \in organizations :
        /\ o.owners # None
        /\ \E t \in teams : t.id = o.owners /\ t.org = o.id

\* C18: Organization.permissions(principal, inherited) for a principal who
\* is not a member of the organization's owners team, null included, has
\* none of view, edit, delete, whatever the inherited set held, and keeps
\* the other inherited names; for a member of the owners team it has view,
\* edit, delete, view-teams and new-team.
C18_OrganizationPermissions ==
    call.op = "Organization.permissions" =>
        LET owners == TeamRow(teams, OrgRow(organizations, call.org).owners)
        IN  IF call.user # None /\ call.user \in owners.users
            THEN {"view", "edit", "delete", "view-teams", "new-team"} \subseteq call.result
            ELSE /\ call.result \cap {"view", "edit", "delete"} = {}
                 /\ call.result = BasePermissions(call.inherited) \ {"view", "edit", "delete"}

\* a user outside the owners team asked with view, edit and delete inherited
C18_Witness ==
    /\ call.op = "Organization.permissions"
    /\ call.user \in Users
    /\ call.user \notin TeamRow(teams, OrgRow(organizations, call.org).owners).users
    /\ TeamRow(teams, OrgRow(organizations, call.org).owners).users # {}
    /\ {"view", "edit", "delete"} \subseteq BasePermissions(call.inherited)
    /\ call.result = {"siteadmin"}

\* C15: whatever client_new and client_edit calls were made, every stored
\* Client has exactly one owner: one of user and org is set, the other null.
C15_ClientHasOneOwner ==
    \A c \in clients : (c.user # None) # (c.org # None)

\* client_edit has moved a client from an organization to a user
C15_Witness ==
    /\ call.op = "client_edit"
    /\ call.changed
    /\ \E c \in clients : c.key = call.key /\ c.user # None /\ c.org = None

\* C17: Client.permissions(principal, inherited) is the inherited set with
\* view added, for every principal and for none; edit, delete,
\* assign-permissions and new-resource are added exactly when the principal
\* is the user who owns the client or a member of the owners team of the
\* organization that owns it.
C17_ClientPermissions ==
    \A c \in clients, u \in Users \cup {None}, inh \in Inherited :
        LET perms == ClientPermissions(c, u, inh, organizations, teams)
            owner == /\ u # None
                     /\ \/ c.user = u
                        \/ /\ c.org # None
                           /\ u \in TeamRow(teams, OrgRow(organizations, c.org).owners).users
            added == {"edit", "delete", "assign-permissions", "new-resource"}
        IN  /\ "view" \in perms
            /\ perms = BasePermissions(inh) \cup {"view"} \cup (IF owner THEN added ELSE {})
            /\ inh.kind = "none" => (owner <=> added \subseteq perms)
            /\ inh.kind = "none" => (~owner <=> added \cap perms = {})

\* client_edit has let a member of the owners team edit the client of the
\* organization, and another user has view only on that client
C17_Witness ==
    /\ call.op = "client_edit"
    /\ ~call.changed
    /\ \E c \in clients, u \in Users, v \in Users :
          /\ c.key = call.key /\ c.org # None
          /\ "edit" \in ClientPermissions(c, u, [kind |-> "none", val |-> {}],
                                          organizations, teams)
          /\ ClientPermissions(c, v, [kind |-> "none", val |-> {}],
                               organizations, teams) = {"view"}

\* C19: Client.get(key) gives a client only when its active flag is set;
\* _client_login_inner sets g.client, to the client of the key, exactly when
\* credentials are sent, an active client has the key sent, and the
\* password sent equals its secret; otherwise it answers 401 and g.client
\* stays unset.
C19_ClientLogin ==
    /\ \A i \in DOMAIN ClientKeys :
          \A c \in ClientGet(clients, ClientKeys[i]) : c.active /\ c.key = ClientKeys[i]
    /\ call.op = "client_login" =>
          IF /\ call.authorization.kind = "basic"
             /\ \E c \in clients : /\ c.key = call.authorization.username
                                   /\ c.active
                                   /\ c.secret = call.authorization.password
          THEN call.g_client = call.authorization.username /\ call.response = Null
          ELSE call.g_client = None /\ call.response = 401

\* the key and the secret of a client that is not active were refused
C19_Witness ==
    /\ call.op = "client_login"
    /\ call.response = 401
    /\ \E c \in clients : /\ c.key = call.authorization.username
                          /\ c.secret = call.authorization.password
                          /\ ~c.active

\* C20: Permission.get(name, user, org, allusers) raises its argument error
\* exactly when allusers is false and user and org are both given or both
\* missing. With allusers true it raises nothing and answers, whatever
\* user and org are, the first allusers permission of that name, or no row.
\* With allusers false and one owner given it answers that owner's
\* permission of that name, or no row.
C20_PermissionGet ==
    call.op = "Permission.get" =>
        LET one == (call.user # None /\ call.org = None)
                       \/ (call.user = None /\ call.org # None)
        IN  /\ call.error = "TypeError" <=> (~call.allusers /\ ~one)
            /\ call.error # "TypeError" => call.error = "none"
            /\ call.allusers =>
                  call.result = First({r \in permissions : r.name = call.name /\ r.allusers})
            /\ (~call.allusers /\ one) =>
                  call.result = First({r \in permissions :
                                          /\ r.name = call.name
                                          /\ r.user = call.user /\ r.org = call.org})
            /\ call.error = "TypeError" => call.result = Null

\* a lookup with allusers true and both a user and an organization given
\* answered the permission for all users, while that user has one of the
\* same name
C20_Witness ==
    /\ call.op = "Permission.get"
    /\ call.allusers /\ call.user # None /\ call.org # None
    /\ call.error = "none"
    /\ call.result # Null
    /\ Row(permissions, call.result).allusers
    /\ \E r \in permissions : r.name = call.name /\ r.user = call.user


\* C21: the algorithm of an AuthToken is always null, 'hmac-sha-1' or
\* 'hmac-sha-256'. Assigning null sets the algorithm to null and the secret to
\* null; assigning one of the two names sets the algorithm and keeps the
\* secret; assigning anything else raises and changes neither. No other row
\* changes.
C21_AlgorithmSetter ==
    [][/\ \A t \in authtokens' : t.algorithm \in {None, "hmac-sha-1", "hmac-sha-256"}
       /\ \A id \in 1..MaxRows, v \in AlgorithmValues :
             SetAlgorithm(id, v) =>
                LET old == Row(authtokens, id)
                    new == Row(authtokens', id)
                IN  /\ authtokens' \ {new} = authtokens \ {old}
                    /\ [new EXCEPT !.algorithm = old.algorithm, !.secret = old.secret] = old
                    /\ v = None =>
                          new.algorithm = None /\ new.secret = Null /\ ~call'.raised
                    /\ v \in {"hmac-sha-1", "hmac-sha-256"} =>
                          new.algorithm = v /\ new.secret = old.secret /\ ~call'.raised
                    /\ v \notin {None, "hmac-sha-1", "hmac-sha-256"} =>
                          new = old /\ call'.raised]_vars

\* an unknown name was refused on a row whose algorithm had been cleared (the
\* secret went with it) and then set to a name (the secret stayed null)
C21_Witness ==
    /\ call.op = "algorithm" /\ call.raised /\ call.value = "md5"
    /\ \E t \in authtokens :
          t.id = call.id /\ t.algorithm = "hmac-sha-256" /\ t.secret = Null
    /\ \E t \in authtokens : t.id # call.id /\ t.algorithm = None /\ t.secret # Null


\* the items of a list that are not in seen, each once, in first-seen order
RECURSIVE FirstSeen(_, _)
FirstSeen(items, seen) ==
    IF items = <<>> THEN <<>>
    ELSE IF Head(items) \in seen THEN FirstSeen(Tail(items), seen)
    ELSE <<Head(items)>> \o FirstSeen(Tail(items), seen \cup {Head(items)})

\* C22: after AuthCode.add_scope(additional) the scope of the code lists the
\* items it listed before, in the same places, followed by the new items of
\* additional in first-seen order.
C22_AddScopeKeepsInsertionOrder ==
    [][\A k \in 1..MaxCodes, x \in Additionals :
          AuthCodeAddScope(k, x) =>
              AuthCodeScope(authcodes'[k]) =
                  AuthCodeScope(authcodes[k])
                      \o FirstSeen(Normalise(x), ToSet(AuthCodeScope(authcodes[k])))]_vars


\* C23: the scope of an AuthCode or AuthToken whose stored scope string is
\* empty has no items, and add_scope on such a record leaves it with exactly
\* the items added.
C23_EmptyScopeParsesEmpty ==
    [][/\ \A k \in DOMAIN authcodes' :
             authcodes'[k].scope = <<>> => AuthCodeScope(authcodes'[k]) = <<>>
       /\ \A t \in authtokens' : t.scope = <<>> => AuthTokenScope(t) = <<>>
       /\ \A k \in 1..MaxCodes, x \in Additionals :
             (AuthCodeAddScope(k, x) /\ authcodes[k].scope = <<>>) =>
                 ToSet(AuthCodeScope(authcodes'[k])) = ToSet(Normalise(x))
       /\ \A id \in 1..MaxRows, x \in Additionals :
             (AddScope(id, x) /\ Row(authtokens, id).scope = <<>>) =>
                 ScopeOf(Row(authtokens', id)) = ToSet(Normalise(x))]_vars


\* C24: writing back the scope read from a stored string s stores a string
\* that reads as s did: for an AuthCode the same items in the same order, for
\* an AuthToken the same set of items, and the string an AuthToken stores
\* lists its items in ascending lexicographic order.
C24_ScopeRoundTrip ==
    /\ call.op = "AuthCode.scope" => Split(call.stored) = Split(call.s)
    /\ call.op = "AuthToken.scope" =>
          LET p == Split(call.stored)
          IN  /\ ToSet(p) = ToSet(Split(call.s))
              /\ \A i \in DOMAIN p, j \in DOMAIN p : i < j => StrLess(p[i], p[j])

\* the scope of an AuthToken that stored 'b a' was written back as 'a b'
C24_Witness ==
    /\ call.op = "AuthToken.scope"
    /\ call.s = <<"b", Space, "a">>
    /\ call.stored = <<"a", Space, "b">>


\* C25: add_scope(A) then add_scope(B) leaves the same scope as add_scope(B)
\* then add_scope(A) (for an AuthToken the same stored string), add_scope(A)
\* a second time changes nothing of the scope, and add_scope of a bare string
\* adds that string as one item.
C25_AddScopeCommutesIdempotent ==
    /\ call.op = "add_scope a b" =>
          /\ ToSet(Split(call.ab)) = ToSet(Split(call.ba))
          /\ call.kind = "AuthToken" => call.ab = call.ba
    /\ call.op = "add_scope a a" =>
          /\ ToSet(Split(call.twice)) = ToSet(Split(call.once))
          /\ call.kind = "AuthToken" => call.twice = call.once
    /\ call.op = "add_scope str" =>
          ToSet(Split(call.stored)) =
              ToSet(Split(ScopeRecord(call.kind, call.scope).scope)) \cup {call.a}

\* an AuthToken made with scope ['a'] was given [] and then the bare string
\* 'b', and another one 'b' and then []: both store 'a b'
C25_Witness ==
    /\ call.op = "add_scope a b" /\ call.kind = "AuthToken"
    /\ call.scope = << <<"a">> >>
    /\ call.a = [kind |-> "list", val |-> <<>>]
    /\ call.b = [kind |-> "str", val |-> <<"b">>]
    /\ call.ab = <<"a", Space, "b">>
    /\ call.ba = <<"a", Space, "b">>


\* C26: when a Client is deleted, every Resource of it, every ResourceAction
\* of such a Resource, and every AuthCode, AuthToken, UserClientPermissions
\* and TeamClientPermissions row of it goes with it, and the rows of the
\* other clients stay as they are.
C26_ClientDeleteCascades ==
    [][\A g \in Users, key \in ToSet(ClientKeys) :
          client_delete(g, key) =>
              LET gone == {r.name : r \in {x \in resources : x.client = key}}
              IN  /\ resources' = {r \in resources : r.client # key}
                  /\ resourceactions' = {a \in resourceactions : a.resource \notin gone}
                  /\ \A k \in DOMAIN authcodes' : authcodes'[k].client # key
                  /\ authcodes' = SelectSeq(authcodes, LAMBDA c : c.client # key)
                  /\ authtokens' = {t \in authtokens : t.client # key}
                  /\ userperms' = {r \in userperms : r.client # key}
                  /\ teamperms' = {r \in teamperms : r.client # key}
                  /\ \A c \in clients' : c.key # key]_vars

\* the organization's client c2 was deleted while it had a resource with an
\* action, a code, a token and a team's permissions; the rows of c1 are there
C26_Witness ==
    /\ call = [op |-> "client_delete", key |-> "c2"]
    /\ \E r \in resources : r.client = "c1"
          /\ \E a \in resourceactions : a.resource = r.name
    /\ \E t \in authtokens : t.client = "c1"
    /\ \E k \in DOMAIN authcodes : authcodes[k].client = "c1"
    /\ \E r \in userperms : r.client = "c1"
    /\ teamperms = {}
    /\ permnext = 3
    /\ nextid = 3


\* C27: an AuthToken has a refresh_token exactly when it has a user, from its
\* creation on and through every refresh, add_scope and migrate_user.
C27_RefreshTokenIffUser ==
    \A t \in authtokens : (t.refresh_token # Null) <=> (t.user # None)

\* migrate_user has handed a user's token to another user while a client-only
\* token existed: the first has its refresh_token, the second has none
C27_Witness ==
    /\ last.op = "migrate_user"
    /\ last.a \in Users /\ last.b \in Users /\ last.a # last.b
    /\ Cardinality(authtokens) = 2
    /\ \E t \in authtokens : t.user = last.b /\ t.refresh_token # Null /\ t.scope # <<>>
    /\ \E t \in authtokens : t.user = None /\ t.refresh_token = Null


\* C28: add_scope and refresh take no item out of the scope of the token they
\* are called on, and after migrate_user(olduser, newuser), for any two
\* users, newuser holds for every client every scope item that olduser or
\* newuser held for that client before the call.
C28_NoScopeLost ==
    [][/\ \A id \in 1..MaxRows, x \in Additionals :
             AddScope(id, x) =>
                 ScopeOf(Row(authtokens, id)) \subseteq ScopeOf(Row(authtokens', id))
       /\ \A id \in 1..MaxRows :
             Refresh(id) =>
                 ScopeOf(Row(authtokens, id)) \subseteq ScopeOf(Row(authtokens', id))
       /\ \A o \in Users, n \in Users :
             MigrateUser(o, n) =>
                 \A t \in authtokens :
                     t.user \in {o, n} =>
                         ScopeOf(t) \subseteq
                             UNION {ScopeOf(q) : q \in TokensOf(authtokens', n, t.client)}]_vars


\* C29: a client_edit that changes the owner of the client leaves no
\* UserClientPermissions and no TeamClientPermissions row of that client; a
\* client_edit that leaves the client with team_access false leaves no
\* ClientTeamAccess row of it; a client_edit that keeps the owner leaves the
\* permission-assignment rows of the client as they were.
C29_ClientEditRevokes ==
    [][\A g \in Users, key \in ToSet(ClientKeys), o \in Users \cup Orgs, ta \in BOOLEAN :
          client_edit(g, key, o, ta) =>
              LET old == ClientRow(clients, key)
                  new == ClientRow(clients', key)
                  kept == old.user = new.user /\ old.org = new.org
              IN  /\ ~kept => /\ \A r \in userperms' : r.client # key
                              /\ \A r \in teamperms' : r.client # key
                  /\ ~new.team_access => \A a \in teamaccess' : a.client # key
                  /\ kept => /\ {r \in userperms' : r.client = key}
                                   = {r \in userperms : r.client = key}
                             /\ {r \in teamperms' : r.client = key}
                                   = {r \in teamperms : r.client = key}]_vars

\* the owner of c1 was changed, with team access switched off, after a user
\* had been given permissions on it and the organization's teams opened to
\* it: none of these rows is left, and the team's permissions on c2 are
C29_Witness ==
    /\ call = [op |-> "client_edit", key |-> "c1", changed |-> TRUE]
    /\ permnext = 3
    /\ userperms = {}
    /\ \E r \in teamperms : r.client = "c2"
    /\ \A r \in teamperms : r.client # "c1"
    /\ \E a \in teamaccess : a.client = "c2"
    /\ \A a \in teamaccess : a.client # "c1"
    /\ ~ClientRow(clients, "c1").team_access


\* no user's username is an organization's name, and no two users and no two
\* organizations have the same name
NamesDistinct(unames, onames) ==
    /\ \A u \in DOMAIN unames, o \in DOMAIN onames :
          unames[u] # None => unames[u] # onames[o]
    /\ \A u \in DOMAIN unames, v \in DOMAIN unames :
          (u # v /\ unames[u] # None) => unames[u] # unames[v]
    /\ \A o \in DOMAIN onames, p \in DOMAIN onames :
          (o # p /\ onames[o] # None) => onames[o] # onames[p]

\* the value is the username of another user or the name of another organization
NameTaken(self, value, unames, onames) ==
    \/ \E u \in DOMAIN unames : u # self /\ unames[u] = value
    \/ \E o \in DOMAIN onames : o # self /\ onames[o] = value

\* C30: after any assignments to User.username and Organization.name no
\* user's username is an organization's name and no two users and no two
\* organizations have the same name; assigning a value that is invalid or
\* already taken changes nothing.
C30_SharedNamespace ==
    [][/\ NamesDistinct(usernames', orgnames')
       /\ \A u \in Users, v \in NameValues :
             (SetUsername(u, v) /\ (~ValidUsername(v) \/ NameTaken(u, v, usernames, orgnames)))
                 => usernames' = usernames
       /\ \A o \in NamedOrgs, v \in NameValues :
             (SetName(o, v) /\ (~ValidUsername(v) \/ NameTaken(o, v, usernames, orgnames)))
                 => orgnames' = orgnames]_vars

\* C30, amended: the names stay distinct as above; assigning a non-empty
\* invalid value or a value already taken changes nothing; assigning the
\* empty string or null to User.username clears it; assigning the empty
\* string to Organization.name changes nothing.
C30_SharedNamespaceAmended ==
    [][/\ NamesDistinct(usernames', orgnames')
       /\ \A u \in Users, v \in NameValues :
             (SetUsername(u, v) /\ v # ""
                 /\ (~ValidUsername(v) \/ NameTaken(u, v, usernames, orgnames)))
                 => usernames' = usernames
       /\ \A u \in Users, v \in {"", None} :
             SetUsername(u, v) => usernames' = [usernames EXCEPT ![u] = None]
       /\ \A o \in NamedOrgs, v \in NameValues :
             (SetName(o, v) /\ (~ValidUsername(v) \/ NameTaken(o, v, usernames, orgnames)))
                 => orgnames' = orgnames]_vars

\* u1 was refused the name that o1 has, while u2 has another one
C30_Witness ==
    /\ call = [op |-> "User.username", who |-> "u1", value |-> "n1", previous |-> None]
    /\ usernames["u1"] = None
    /\ orgnames["o1"] = "n1"
    /\ usernames["u2"] = "n2"
    /\ orgnames["o2"] = None

====
